---- MODULE Spec2Model ----
(***************************************************************************)
(* Pet model of service/models.py: the in-memory Pet instances, the        *)
(* Cloudant/CouchDB database they are persisted in, the retry decorator    *)
(* around every database method, and the serialize/deserialize codec.      *)
(*                                                                         *)
(* Python values are modelled as follows.  None is the string "None" for   *)
(* attributes that hold strings, and 0 for id and rev (both Python-falsy). *)
(* Document ids are 1, 2, ... (the store's generated uuids), revisions are *)
(* the generation numbers 1, 2, ...  A JSON value on the wire is a         *)
(* tagged record [t, v]; a string holding an ISO date is the tuple of its  *)
(* characters.                                                             *)
(***************************************************************************)
EXTENDS Integers, Sequences, FiniteSets, TLC

\* ------------------------------------------------------------------ bounds
\* writes (creations, updates, deletions) the database applies in a run
MaxWrites == 4
\* days the process runs after the import of the module
MaxDays == 3
\* documents in a database that other applications write to as well
MaxListed == 3

\* ------------------------------------------------------------ configuration
\* tries of every @retry decorator: int(os.environ.get("RETRY_COUNT", 10))
RETRY_COUNT == 10

\* the callers; each holds one Pet instance at a time
Slots == {"a", "b"}
\* the ids the database generates, in the order it generates them
DocIds == 1..MaxWrites

None == "None"
NoId == 0
NoRev == 0

\* ------------------------------------------------------------------ Gender
\* class Gender(Enum): a member is modelled by its value
MALE == 0
FEMALE == 1
UNKNOWN == 3
Gender == {MALE, FEMALE, UNKNOWN}

\* the value getattr yields for a name that is an attribute of the Enum class
\* but no member
NotAMember == -1

\* gender.name: the member's name as a string
GenderName(g) ==
    CASE g = MALE -> "MALE" [] g = FEMALE -> "FEMALE" [] g = UNKNOWN -> "UNKNOWN"

\* names the Enum class answers that are not members
EnumClassAttrs == {"__members__", "__name__", "__doc__"}

\* getattr(Gender, s): the member of that name, another attribute of the class,
\* or AttributeError
GetattrGender(s) ==
    IF \E g \in Gender : GenderName(g) = s
    THEN [exc |-> "ok", v |-> CHOOSE g \in Gender : GenderName(g) = s]
    ELSE IF s \in EnumClassAttrs THEN [exc |-> "ok", v |-> NotAMember]
    ELSE [exc |-> "AttributeError", v |-> NotAMember]

\* ------------------------------------------------------------------- dates
DigitChar == <<"0", "1", "2", "3", "4", "5", "6", "7", "8", "9">>

Pad2(n) == <<DigitChar[((n \div 10) % 10) + 1], DigitChar[(n % 10) + 1]>>
Pad4(n) == <<DigitChar[((n \div 1000) % 10) + 1], DigitChar[((n \div 100) % 10) + 1]>>
           \o Pad2(n % 100)

\* the date written day first: DD-MM-YYYY
IsoFormatDayFirst(d) == Pad2(d.day) \o <<"-">> \o Pad2(d.month) \o <<"-">> \o Pad4(d.year)

\* date.isoformat(): YYYY-MM-DD
IsoFormat(d) == Pad4(d.year) \o <<"-">> \o Pad2(d.month) \o <<"-">> \o Pad2(d.day)

IsDigit(c) == \E k \in 1..10 : DigitChar[k] = c
DigitVal(c) == (CHOOSE k \in 1..10 : DigitChar[k] = c) - 1

IsLeap(y) == ((y % 4) = 0 /\ (y % 100) # 0) \/ (y % 400) = 0
DaysIn(y, m) ==
    IF m = 2 THEN (IF IsLeap(y) THEN 29 ELSE 28)
    ELSE IF m \in {4, 6, 9, 11} THEN 30 ELSE 31

\* date.fromisoformat(s): the date, or ValueError for a string that is no
\* YYYY-MM-DD date
FromIsoFormat(s) ==
    IF /\ Len(s) = 10
       /\ s[5] = "-" /\ s[8] = "-"
       /\ \A k \in {1, 2, 3, 4, 6, 7, 9, 10} : IsDigit(s[k])
    THEN LET y == DigitVal(s[1]) * 1000 + DigitVal(s[2]) * 100
                  + DigitVal(s[3]) * 10 + DigitVal(s[4])
             m == DigitVal(s[6]) * 10 + DigitVal(s[7])
             d == DigitVal(s[9]) * 10 + DigitVal(s[10])
         IN IF y >= 1 /\ m \in 1..12 /\ d >= 1 /\ d <= DaysIn(y, m)
            THEN [exc |-> "ok", v |-> [year |-> y, month |-> m, day |-> d]]
            ELSE [exc |-> "ValueError", v |-> [year |-> 0, month |-> 0, day |-> 0]]
    ELSE [exc |-> "ValueError", v |-> [year |-> 0, month |-> 0, day |-> 0]]

\* date.today() evaluated once, when the class body is executed
ImportDay == [year |-> 2026, month |-> 2, day |-> 28]

\* -------------------------------------------------------------- JSON values
JNull == [t |-> "null", v |-> "null"]
JStr(s) == [t |-> "str", v |-> s]
JBool(b) == [t |-> "bool", v |-> IF b THEN "true" ELSE "false"]
JNum(n) == [t |-> "num", v |-> n]

JList(l) == [t |-> "list", v |-> l]

\* a Python str-or-None attribute as a JSON value, and back
ToJson(x) == IF x = None THEN JNull ELSE JStr(x)
FromJson(j) == IF j.t = "null" THEN None ELSE j.v

\* --------------------------------------------------------------------- Pet
\* Pet.__init__: id and rev start as None
NewPet(name, category, available, gender, birthday) ==
    [id |-> NoId, rev |-> NoRev, name |-> name, category |-> category,
     available |-> available, gender |-> gender, birthday |-> birthday]

\* the constructor arguments callers use: a Pet with every attribute given, and
\* one without a name
Fido == NewPet("Fido", "dog", TRUE, MALE, [year |-> 2020, month |-> 1, day |-> 1])
Nameless == NewPet(None, "cat", FALSE, FEMALE, [year |-> 2019, month |-> 12, day |-> 31])
PetArgs == {Fido, Nameless}

\* an instance constructed with the empty string as name
Unnamed == NewPet("", "cat", FALSE, FEMALE, [year |-> 2019, month |-> 12, day |-> 31])

DataKeys == {"name", "category", "available", "gender", "birthday"}

Fields(p) == [k \in DataKeys |-> p[k]]

\* serialize with available written as true whatever the attribute
SerializeAvailable(p) ==
    LET base == [k \in DataKeys |->
                    CASE k = "name" -> ToJson(p.name)
                      [] k = "category" -> ToJson(p.category)
                      [] k = "available" -> JBool(TRUE)
                      [] k = "gender" -> JStr(GenderName(p.gender))
                      [] k = "birthday" -> JStr(IsoFormat(p.birthday))]
        withId == IF p.id # NoId
                  THEN [k \in DataKeys \cup {"_id"} |->
                            IF k = "_id" THEN JNum(p.id) ELSE base[k]]
                  ELSE base
    IN IF p.rev # NoRev
       THEN [k \in DOMAIN withId \cup {"_rev"} |->
                 IF k = "_rev" THEN JNum(p.rev) ELSE withId[k]]
       ELSE withId

\* Pet.serialize
Serialize(p) ==
    LET base == [k \in DataKeys |->
                    CASE k = "name" -> ToJson(p.name)
                      [] k = "category" -> ToJson(p.category)
                      [] k = "available" -> JBool(p.available)
                      [] k = "gender" -> JStr(GenderName(p.gender))
                      [] k = "birthday" -> JStr(IsoFormat(p.birthday))]
        withId == IF p.id # NoId
                  THEN [k \in DataKeys \cup {"_id"} |->
                            IF k = "_id" THEN JNum(p.id) ELSE base[k]]
                  ELSE base
    IN IF p.rev # NoRev
       THEN [k \in DOMAIN withId \cup {"_rev"} |->
                 IF k = "_rev" THEN JNum(p.rev) ELSE withId[k]]
       ELSE withId

\* the outcome of deserialize: the exception raised ("ok" for none), the key a
\* KeyError names, and the instance as the call leaves it
DesResult(exc, key, p) == [exc |-> exc, key |-> key, pet |-> p]

\* the tail of deserialize with _id copied whenever the dictionary has one
DeserializeIdsAlways(p, data) ==
    LET p1 == IF "_id" \in DOMAIN data THEN [p EXCEPT !.id = data["_id"].v] ELSE p
    IN IF "_rev" \in DOMAIN data THEN [p1 EXCEPT !.rev = data["_rev"].v] ELSE p1

\* the tail of deserialize: _id is copied only into an instance without id,
\* _rev always
DeserializeIds(p, data) ==
    LET p1 == IF p.id = NoId /\ "_id" \in DOMAIN data
              THEN [p EXCEPT !.id = data["_id"].v] ELSE p
    IN IF "_rev" \in DOMAIN data THEN [p1 EXCEPT !.rev = data["_rev"].v] ELSE p1

\* Pet.deserialize(data): the attributes are assigned in order, so a failure
\* leaves the ones before it assigned
Deserialize(p, data) ==
    IF "name" \notin DOMAIN data THEN DesResult("DataValidationError", "name", p)
    ELSE LET p1 == [p EXCEPT !.name = FromJson(data["name"])] IN
    IF "category" \notin DOMAIN data
    THEN DesResult("DataValidationError", "category", p1)
    ELSE LET p2 == [p1 EXCEPT !.category = FromJson(data["category"])] IN
    IF "available" \notin DOMAIN data
    THEN DesResult("DataValidationError", "available", p2)
    ELSE IF data["available"].t # "bool"
    THEN DesResult("DataValidationError", "", p2)
    ELSE LET p3 == [p2 EXCEPT !.available = (data["available"].v = "true")] IN
    IF "gender" \notin DOMAIN data
    THEN DesResult("DataValidationError", "gender", p3)
    ELSE IF data["gender"].t # "str"
    THEN DesResult("DataValidationError", "", p3)     \* TypeError from getattr
    ELSE LET g == GetattrGender(data["gender"].v) IN
    IF g.exc # "ok" THEN DesResult(g.exc, "", p3)     \* AttributeError, not caught
    ELSE LET p4 == [p3 EXCEPT !.gender = g.v] IN
    IF "birthday" \notin DOMAIN data
    THEN DesResult("DataValidationError", "birthday", p4)
    ELSE IF data["birthday"].t # "str"
    THEN DesResult("DataValidationError", "", p4)     \* TypeError from fromisoformat
    ELSE LET b == FromIsoFormat(data["birthday"].v) IN
    IF b.exc # "ok" THEN DesResult(b.exc, "", p4)     \* ValueError, not caught
    ELSE DesResult("ok", "", DeserializeIds([p4 EXCEPT !.birthday = b.v], data))

\* Pet(): the constructor's defaults
DefaultPet == NewPet(None, None, TRUE, UNKNOWN, ImportDay)

\* ---------------------------------------------------------------- database
\* HTTP status codes of the database's answers
OK == 200
NOT_FOUND == 404
CONFLICT == 409
UNAVAILABLE == 503
GATEWAY_TIMEOUT == 504

\* the faults a request can meet: none, refused before it is applied (503), or
\* applied with the answer replaced by an error (504)
Faults == {"none", "refused", "lost"}

Live(docs, d) == d \in DOMAIN docs /\ ~docs[d].deleted

\* the id the database generates for a document posted without _id
FreshId(docs) ==
    IF DocIds \subseteq DOMAIN docs THEN NoId
    ELSE CHOOSE d \in DocIds \ DOMAIN docs : \A e \in DocIds \ DOMAIN docs : d <= e

Body(doc) == [k \in DOMAIN doc \ {"_id", "_rev"} |-> doc[k]]

Answer(code, id, rev, docs) == [code |-> code, id |-> id, rev |-> rev, docs |-> docs]

\* client.post_document(db, document): creates the document when it has no _id
\* or names no existing one, else writes a new revision of it if _rev is the
\* current revision
PostDocument(docs, doc) ==
    LET hasRev == "_rev" \in DOMAIN doc
        id == IF "_id" \in DOMAIN doc THEN doc["_id"].v ELSE FreshId(docs)
        put(r) == [d \in DOMAIN docs \cup {id} |->
                     IF d = id THEN [rev |-> r, deleted |-> FALSE, body |-> Body(doc)]
                     ELSE docs[d]]
    IN IF id \notin DOMAIN docs
       THEN IF hasRev THEN Answer(CONFLICT, NoId, NoRev, docs)
            ELSE Answer(OK, id, 1, put(1))
       ELSE IF docs[id].deleted
       THEN IF hasRev /\ doc["_rev"].v # docs[id].rev
            THEN Answer(CONFLICT, NoId, NoRev, docs)
            ELSE Answer(OK, id, docs[id].rev + 1, put(docs[id].rev + 1))
       ELSE IF hasRev /\ doc["_rev"].v = docs[id].rev
            THEN Answer(OK, id, docs[id].rev + 1, put(docs[id].rev + 1))
            ELSE Answer(CONFLICT, NoId, NoRev, docs)

\* client.delete_document(db, doc_id, rev): leaves a deleted revision without
\* content behind
DeleteDocument(docs, id, rev) ==
    IF ~Live(docs, id) THEN Answer(NOT_FOUND, NoId, NoRev, docs)
    ELSE IF rev # docs[id].rev THEN Answer(CONFLICT, NoId, NoRev, docs)
    ELSE Answer(OK, id, docs[id].rev + 1,
                [docs EXCEPT ![id].rev = @ + 1, ![id].deleted = TRUE, ![id].body = <<>>])

\* the document as the database returns it: its body with _id and _rev
Stored(docs, d) ==
    [k \in DOMAIN docs[d].body \cup {"_id", "_rev"} |->
        IF k = "_id" THEN JNum(d)
        ELSE IF k = "_rev" THEN JNum(docs[d].rev) ELSE docs[d].body[k]]

\* the live documents with an id in S, in id order
RECURSIVE Listing(_, _)
Listing(docs, S) ==
    IF S = {} THEN <<>>
    ELSE LET d == CHOOSE x \in S : \A y \in S : x <= y
         IN (IF Live(docs, d) THEN <<Stored(docs, d)>> ELSE <<>>)
            \o Listing(docs, S \ {d})

\* client.post_all_docs(db, include_docs=True): the rows' documents
PostAllDocs(docs) == Listing(docs, DOMAIN docs)

\* client.post_find(db, selector): the documents whose field equals the value
PostFind(docs, key, value) ==
    Listing(docs, {d \in DOMAIN docs :
                     key \in DOMAIN docs[d].body /\ docs[d].body[key] = value})

\* what the caller sees of an answer under a fault
Faulty(fault, a, docs) ==
    CASE fault = "none" -> a
      [] fault = "refused" -> Answer(UNAVAILABLE, NoId, NoRev, docs)
      [] fault = "lost" -> Answer(GATEWAY_TIMEOUT, NoId, NoRev, a.docs)

\* ------------------------------------------------------- instance methods
\* what one execution of a method body does: the exception it raises ("ok" for
\* none), the instance and the database afterwards, the status code of the
\* database's answer (0 when no request was sent), and the value returned
Outcome(exc, p, docs, code, ret) ==
    [exc |-> exc, pet |-> p, docs |-> docs, code |-> code, ret |-> ret]

\* create without the check of the name
CreateUnchecked(p, docs, fault) ==
    LET r == Faulty(fault, PostDocument(docs, Serialize(p)), docs)
    IN IF r.code = OK
       THEN Outcome("ok", [p EXCEPT !.id = r.id, !.rev = r.rev], r.docs, r.code, r.id)
       ELSE Outcome("DatabaseConnectionError", p, r.docs, r.code, NoId)

\* Pet.create (body)
Create(p, docs, fault) ==
    IF p.name = None THEN Outcome("DataValidationError", p, docs, 0, NoId)
    ELSE LET r == Faulty(fault, PostDocument(docs, Serialize(p)), docs)
         IN IF r.code = OK
            THEN Outcome("ok", [p EXCEPT !.id = r.id, !.rev = r.rev], r.docs, r.code, r.id)
            ELSE Outcome("DatabaseConnectionError", p, r.docs, r.code, NoId)

\* update with rev advanced before the answer is known
UpdateOptimistic(p, docs, fault) ==
    LET r == Faulty(fault, PostDocument(docs, Serialize(p)), docs)
    IN IF r.code = OK
       THEN Outcome("ok", [p EXCEPT !.rev = r.rev], r.docs, r.code, NoId)
       ELSE Outcome("DatabaseConnectionError", [p EXCEPT !.rev = @ + 1], r.docs, r.code, NoId)

\* Pet.update (body)
Update(p, docs, fault) ==
    LET r == Faulty(fault, PostDocument(docs, Serialize(p)), docs)
    IN IF r.code = OK
       THEN Outcome("ok", [p EXCEPT !.rev = r.rev], r.docs, r.code, NoId)
       ELSE Outcome("DatabaseConnectionError", p, r.docs, r.code, NoId)

\* delete with the instance's revision refreshed from the answer
DeleteRefreshingRev(p, docs, fault) ==
    IF p.id = NoId THEN Outcome("ValueError", p, docs, 0, NoId)
    ELSE LET r == Faulty(fault, DeleteDocument(docs, p.id, p.rev), docs)
         IN IF r.code = OK
            THEN Outcome("ok", [p EXCEPT !.rev = r.rev], r.docs, r.code, NoId)
            ELSE Outcome("DatabaseConnectionError", p, r.docs, r.code, NoId)

\* Pet.delete (body); the client refuses a doc_id of None with ValueError
\* before it sends anything
Delete(p, docs, fault) ==
    IF p.id = NoId THEN Outcome("ValueError", p, docs, 0, NoId)
    ELSE LET r == Faulty(fault, DeleteDocument(docs, p.id, p.rev), docs)
         IN IF r.code = OK
            THEN Outcome("ok", p, r.docs, r.code, NoId)
            ELSE Outcome("DatabaseConnectionError", p, r.docs, r.code, NoId)

\* ------------------------------------------------------------------- retry
\* the exceptions each method's @retry decorator retries on
RetryOn(method) ==
    IF method \in {"create", "update", "delete"}
    THEN {"DatabaseConnectionError"}
    ELSE {"ApiException"}

\* the decorator's loop with the raise after the last try missing
RetryOnceMore(method, tries, exc) ==
    IF exc = "ok" THEN [tries |-> tries, over |-> TRUE]
    ELSE IF exc \in RetryOn(method)
    THEN [tries |-> tries - 1, over |-> tries - 1 < 0]
    ELSE [tries |-> tries, over |-> TRUE]

\* one pass of the decorator's loop around a body that ended with exc: the
\* tries left afterwards and whether the call is over
Retry(method, tries, exc) ==
    IF exc = "ok" THEN [tries |-> tries, over |-> TRUE]
    ELSE IF exc \in RetryOn(method)
    THEN [tries |-> tries - 1, over |-> tries - 1 = 0]
    ELSE [tries |-> tries, over |-> TRUE]

\* ------------------------------------------------------------ class methods
\* what one execution of a query body does: the exception raised, the Pets
\* returned (find returns <<>> for None) and the status code of the answer
QOutcome(exc, ret, code) == [exc |-> exc, ret |-> ret, code |-> code]

\* the loop of all and find_by: a fresh Pet is deserialized from each document;
\* find_by also assigns the document's _id
RECURSIVE DecodeRows(_, _)
DecodeRows(rows, setId) ==
    IF rows = <<>> THEN [exc |-> "ok", pets |-> <<>>]
    ELSE LET r == Deserialize(DefaultPet, Head(rows))
             pet == IF setId THEN [r.pet EXCEPT !.id = Head(rows)["_id"].v] ELSE r.pet
             rest == DecodeRows(Tail(rows), setId)
         IN IF r.exc # "ok" THEN [exc |-> r.exc, pets |-> <<>>]
            ELSE IF rest.exc # "ok" THEN rest
            ELSE [exc |-> "ok", pets |-> <<pet>> \o rest.pets]

\* Pet.all (body)
All(docs, fault) ==
    IF fault # "none" THEN QOutcome("DatabaseConnectionError", <<>>, UNAVAILABLE)
    ELSE LET r == DecodeRows(PostAllDocs(docs), FALSE)
         IN QOutcome(r.exc, r.pets, OK)

\* Pet.find_by (body), for a selector of one field
FindBy(docs, key, value, fault) ==
    IF fault # "none" THEN QOutcome("DatabaseConnectionError", <<>>, UNAVAILABLE)
    ELSE LET r == DecodeRows(PostFind(docs, key, ToJson(value)), TRUE)
         IN QOutcome(r.exc, r.pets, OK)

\* Pet.find (body): every ApiException ends in return None
Find(docs, id, fault) ==
    IF fault # "none" THEN QOutcome("ok", <<>>, UNAVAILABLE)
    ELSE IF ~Live(docs, id) THEN QOutcome("ok", <<>>, NOT_FOUND)
    ELSE LET r == Deserialize(DefaultPet, Stored(docs, id))
         IN IF r.exc # "ok" THEN QOutcome(r.exc, <<>>, OK)
            ELSE QOutcome("ok", <<[r.pet EXCEPT !.id = id]>>, OK)

\* ------------------------------------------------------------------- state
VARIABLES
    pets,     \* the Pet instance each caller variable holds
    call,     \* the method call in progress or last finished on each instance
    docs,     \* the database: id -> [rev, deleted, body]
    query,    \* the class-method call in progress or last finished
    hist,     \* per instance: what the database did for it (history)
    origin,   \* per document: the attributes of the instance last written to it
    codec,    \* the last direct call of serialize / deserialize and its outcome
    clock     \* the calendar: today, and the day each held instance was constructed

vars == <<pets, call, docs, query, hist, origin, codec, clock>>

Methods == {"create", "update", "delete"}

NoCall ==
    [op |-> "none", st |-> "idle", tries |-> 0, runs |-> 0, calls |-> 0, transients |-> 0,
     rejects |-> 0, exc |-> "none", ret |-> NoId, id0 |-> NoId, rev0 |-> NoRev,
     fresh0 |-> FALSE, removed0 |-> FALSE]

NoQuery ==
    [kind |-> "none", arg |-> None, id |-> NoId, st |-> "idle", tries |-> 0,
     outer |-> 0, calls |-> 0, transients |-> 0, code |-> 0, exc |-> "none",
     ret |-> <<>>, gone0 |-> FALSE, orig0 |-> <<>>]

NoHist == [persisted |-> FALSE, removed |-> FALSE, src |-> NoId]

\* no direct call of the codec yet
NoCodec ==
    [op |-> "none", src |-> <<>>, target |-> <<>>, data |-> <<>>, exc |-> "none", key |-> ""]

\* the module was imported today; no instance constructed yet
NoDay == [year |-> 0, month |-> 0, day |-> 0]
ImportClock ==
    [today |-> ImportDay, built |-> [i \in Slots |-> NoDay],
     defaulted |-> [i \in Slots |-> FALSE]]

Init ==
    /\ pets = <<>>
    /\ call = [i \in Slots |-> NoCall]
    /\ docs = <<>>
    /\ query = NoQuery
    /\ hist = [i \in Slots |-> NoHist]
    /\ origin = <<>>
    /\ codec = NoCodec
    /\ clock = ImportClock

Idle(i) == call[i].st # "run"

\* no call is in progress
Quiet == query.st # "run" /\ \A i \in Slots : Idle(i)

\* a caller that goes on drops the result of its last call
ForgetCall(i) == [call EXCEPT ![i] = NoCall]
ForgetCalls == [j \in Slots |-> IF call[j].st = "done" THEN NoCall ELSE call[j]]
ForgetQuery == IF query.st = "done" THEN NoQuery ELSE query

\* the instance's revision is the current revision of the document the
\* database gave it for
Fresh(i) ==
    /\ hist[i].src # NoId
    /\ Live(docs, hist[i].src)
    /\ docs[hist[i].src].rev = pets[i].rev

\* -------------------------------------------------------------- the callers
\* pet = Pet(...): a caller constructs an instance
New(i) ==
    /\ Idle(i)
    /\ \E a \in PetArgs :
          pets' = [j \in DOMAIN pets \cup {i} |-> IF j = i THEN a ELSE pets[j]]
    /\ call' = ForgetCall(i)
    /\ query' = ForgetQuery
    /\ hist' = [hist EXCEPT ![i] = NoHist]
    /\ UNCHANGED <<docs, origin, codec, clock>>

\* a caller assigns the five data attributes of an instance it holds
SetAttrs(i) ==
    /\ i \in DOMAIN pets
    /\ Idle(i)
    /\ \E a \in PetArgs :
          /\ Fields(a) # Fields(pets[i])
          /\ pets' = [pets EXCEPT ![i] = [a EXCEPT !.id = pets[i].id, !.rev = pets[i].rev]]
    /\ call' = ForgetCall(i)
    /\ query' = ForgetQuery
    /\ UNCHANGED <<docs, hist, origin, codec, clock>>

\* a caller calls create, update or delete on an instance: the decorator
\* starts with RETRY_COUNT tries
Call(i, m) ==
    /\ i \in DOMAIN pets
    /\ Idle(i)
    /\ call' = [call EXCEPT ![i] =
                  [NoCall EXCEPT !.op = m, !.st = "run", !.tries = RETRY_COUNT,
                                 !.id0 = pets[i].id, !.rev0 = pets[i].rev,
                                 !.removed0 = hist[i].removed]]
    /\ query' = ForgetQuery
    /\ UNCHANGED <<pets, docs, hist, origin, codec, clock>>

MethodBody(m, p, d, fault) ==
    CASE m = "create" -> Create(p, d, fault)
      [] m = "update" -> Update(p, d, fault)
      [] m = "delete" -> Delete(p, d, fault)

Transient(code) == code \in {UNAVAILABLE, GATEWAY_TIMEOUT}
Rejection(code) == code \in {NOT_FOUND, CONFLICT}

\* every applied write adds one to a revision: the writes applied so far
RECURSIVE SumRevs(_, _)
SumRevs(d, S) ==
    IF S = {} THEN 0
    ELSE LET x == CHOOSE y \in S : TRUE IN d[x].rev + SumRevs(d, S \ {x})

\* the request stays within the model's bounds
Bounded(d) == DOMAIN d \subseteq DocIds /\ SumRevs(d, DOMAIN d) <= MaxWrites

\* the documents a request changed
Written(old, new) == {d \in DOMAIN new : d \notin DOMAIN old \/ new[d] # old[d]}

\* one pass of the decorator's loop of the call on instance i: the body runs
\* once, against the database as it is now
Attempt(i) ==
    /\ call[i].st = "run"
    /\ \E fault \in Faults :
       \E o \in {MethodBody(call[i].op, pets[i], docs, fault)} :
       \E w \in {Written(docs, o.docs)} :
          LET c == call[i]
              r == Retry(c.op, c.tries, o.exc)
          IN /\ Bounded(o.docs)
             /\ fault = "lost" => w # {}
             /\ fault = "refused" => o.code = UNAVAILABLE
             /\ pets' = [pets EXCEPT ![i] = o.pet]
             /\ docs' = o.docs
             /\ call' = [call EXCEPT ![i] =
                           [c EXCEPT !.tries = IF r.over THEN 0 ELSE r.tries,
                                     !.st = IF r.over THEN "done" ELSE "run",
                                     !.exc = IF r.over THEN o.exc ELSE "none",
                                     !.ret = o.ret,
                                     !.runs = @ + 1,
                                     !.calls = IF o.code # 0 THEN @ + 1 ELSE @,
                                     !.transients = IF Transient(o.code) THEN @ + 1 ELSE @,
                                     !.rejects = IF Rejection(o.code) THEN @ + 1 ELSE @,
                                     !.fresh0 = IF c.tries = RETRY_COUNT THEN Fresh(i) ELSE @]]
             /\ hist' = [hist EXCEPT ![i] =
                           IF o.exc = "ok" /\ c.op = "delete"
                           THEN [@ EXCEPT !.removed = TRUE]
                           ELSE IF o.exc = "ok" /\ w # {}
                           THEN [@ EXCEPT !.persisted = TRUE,
                                          !.src = CHOOSE d \in w : TRUE]
                           ELSE @]
             /\ origin' = IF c.op = "delete"
                          THEN [d \in DOMAIN origin \ w |-> origin[d]]
                          ELSE [d \in DOMAIN origin \cup w |->
                                  IF d \in w THEN Fields(pets[i]) ELSE origin[d]]
    /\ UNCHANGED <<query, codec, clock>>

\* the selector values callers query with
Categories == {"dog", "cat"}
Names == {"Fido", ""}

\* a caller calls a class method: find(id), all(), find_by(category=arg) or
\* find_by_name(arg)
QCall(kind, arg, id) ==
    /\ query.st # "run"
    /\ query' = [NoQuery EXCEPT !.kind = kind, !.arg = arg, !.id = id, !.st = "run",
                                !.tries = RETRY_COUNT, !.outer = RETRY_COUNT]
    /\ call' = ForgetCalls
    /\ UNCHANGED <<pets, docs, hist, origin, codec, clock>>

QueryBody(kind, arg, id, d, fault) ==
    CASE kind = "find" -> Find(d, id, fault)
      [] kind = "all" -> All(d, fault)
      [] kind = "find_by" -> FindBy(d, "category", arg, fault)
      [] kind = "find_by_name" -> FindBy(d, "name", arg, fault)

\* find_by_name is decorated itself and calls the decorated find_by: the
\* tries of the inner loop and of the outer loop after a body ended with exc
RetryNested(inner, outer, tries, otries, exc) ==
    LET r == Retry(inner, tries, exc)
        ro == Retry(outer, otries, exc)
    IN IF ~r.over THEN [tries |-> r.tries, outer |-> otries, over |-> FALSE]
       ELSE IF exc = "ok" \/ ro.over THEN [tries |-> 0, outer |-> 0, over |-> TRUE]
       ELSE [tries |-> RETRY_COUNT, outer |-> ro.tries, over |-> FALSE]

RetryQuery(kind, tries, otries, exc) ==
    IF kind = "find_by_name"
    THEN RetryNested("find_by", "find_by_name", tries, otries, exc)
    ELSE LET r == Retry(kind, tries, exc)
         IN [tries |-> IF r.over THEN 0 ELSE r.tries, outer |-> 0, over |-> r.over]

\* one pass of the decorator's loop of the class-method call
QAttempt ==
    /\ query.st = "run"
    /\ \E fault \in {"none", "refused"} :
       \E o \in {QueryBody(query.kind, query.arg, query.id, docs, fault)} :
          LET r == RetryQuery(query.kind, query.tries, query.outer, o.exc)
          IN query' = [query EXCEPT
                          !.tries = r.tries, !.outer = r.outer,
                          !.st = IF r.over THEN "done" ELSE "run",
                          !.exc = IF r.over THEN o.exc ELSE "none",
                          !.ret = o.ret,
                          !.code = o.code,
                          !.calls = @ + 1,
                          !.transients = IF Transient(o.code) THEN @ + 1 ELSE @,
                          !.gone0 = query.id \in DOMAIN docs /\ docs[query.id].deleted,
                          !.orig0 = IF query.id \in DOMAIN origin
                                    THEN <<origin[query.id]>> ELSE <<>>]
    /\ UNCHANGED <<pets, call, docs, hist, origin, codec, clock>>

\* a caller keeps one of the Pets a class method returned
Bind(i, k) ==
    /\ Idle(i)
    /\ query.st = "done" /\ query.exc = "ok"
    /\ k \in 1..Len(query.ret)
    /\ pets' = [j \in DOMAIN pets \cup {i} |-> IF j = i THEN query.ret[k] ELSE pets[j]]
    /\ call' = ForgetCall(i)
    /\ query' = NoQuery
    /\ hist' = [hist EXCEPT ![i] =
                  [persisted |-> TRUE, removed |-> FALSE, src |-> query.ret[k].id]]
    /\ UNCHANGED <<docs, origin, codec, clock>>

\* one caller, "a": it constructs, changes and keeps instances and makes one
\* call at a time
Next ==
    \/ New("a")
    \/ SetAttrs("a")
    \/ \E m \in Methods : Quiet /\ Call("a", m)
    \/ Attempt("a")
    \/ \E id \in DocIds : Quiet /\ QCall("find", None, id)
    \/ Quiet /\ QCall("all", None, NoId)
    \/ \E c \in Categories : Quiet /\ QCall("find_by", c, NoId)
    \/ \E n \in Names : Quiet /\ QCall("find_by_name", n, NoId)
    \/ QAttempt
    \/ \E k \in DocIds : Bind("a", k)

Spec == Init /\ [][Next]_vars

\* two callers, each holding an instance loaded from the same document at the
\* same revision; "b" has changed the attributes of its instance; they update
\* their instances concurrently, again and again
Loaded(p) == [p EXCEPT !.id = 1, !.rev = 1]

InitConc ==
    /\ pets = [i \in Slots |-> IF i = "a" THEN Loaded(Fido) ELSE Loaded(Nameless)]
    /\ call = [i \in Slots |-> NoCall]
    /\ docs = PostDocument(<<>>, Serialize(Fido)).docs
    /\ query = NoQuery
    /\ hist = [i \in Slots |-> [persisted |-> TRUE, removed |-> FALSE, src |-> 1]]
    /\ origin = [d \in {1} |-> Fields(Fido)]
    /\ codec = NoCodec
    /\ clock = ImportClock

NextConc ==
    \/ \E i \in Slots : Call(i, "update")
    \/ \E i \in Slots : Attempt(i)

SpecConc == InitConc /\ [][NextConc]_vars

\* one caller holding a new instance whose name is None or the empty string;
\* it calls create and update on it
InitNames ==
    /\ pets \in {[i \in {"a"} |-> p] : p \in {Nameless, Unnamed}}
    /\ call = [i \in Slots |-> NoCall]
    /\ docs = <<>>
    /\ query = NoQuery
    /\ hist = [i \in Slots |-> NoHist]
    /\ origin = <<>>
    /\ codec = NoCodec
    /\ clock = ImportClock

NextNames ==
    \/ \E m \in {"create", "update"} : Call("a", m)
    \/ Attempt("a")

SpecNames == InitNames /\ [][NextNames]_vars

\* ------------------------------------------------ the codec called directly
\* the instances a caller serializes: every attribute set, with or without
\* id and rev
Birthdays ==
    {[year |-> 2020, month |-> 2, day |-> 29], [year |-> 2019, month |-> 12, day |-> 31],
     [year |-> 1, month |-> 1, day |-> 1], [year |-> 999, month |-> 10, day |-> 9],
     [year |-> 9999, month |-> 12, day |-> 31]}

Records ==
    {[NewPet(n, c, a, g, b) EXCEPT !.id = k, !.rev = k * 2] :
        n \in {"Fido", "Rex"}, c \in {"dog", None}, a \in BOOLEAN, g \in Gender,
        b \in Birthdays, k \in {NoId, 1}}

\* the dictionaries a caller passes to deserialize: each key is left out or
\* has one of a few values, well-formed or not
Absent == [t |-> "absent", v |-> ""]

DocOf(vals) == [k \in {x \in DOMAIN vals : vals[x] # Absent} |-> vals[k]]

Documents ==
    {DocOf([name |-> n, category |-> c, available |-> a, gender |-> g, birthday |-> b]) :
        n \in {Absent, JStr("Fido"), JNull},
        c \in {Absent, JStr("dog")},
        a \in {Absent, JBool(TRUE), JStr("yes"), JNull},
        g \in {Absent, JStr("MALE"), JStr("male"), JStr("__members__"), JBool(TRUE)},
        b \in {Absent, JStr(IsoFormat([year |-> 2020, month |-> 1, day |-> 1])),
               JStr(<<"2", "0", "2", "0", "-", "0", "2", "-", "3", "0">>), JList(<<>>)}}

\* a caller calls pet.serialize() on the instance it holds
SerializeCall(i) ==
    /\ i \in DOMAIN pets
    /\ codec' = [NoCodec EXCEPT !.op = "serialize", !.src = pets[i],
                                !.data = Serialize(pets[i]), !.exc = "ok"]
    /\ UNCHANGED <<pets, call, docs, query, hist, origin, clock>>

\* a caller calls target.deserialize(data) and holds the instance afterwards;
\* src is the instance the dictionary was serialized from, if any
DeserializeCall(i, target, data, src) ==
    /\ \E r \in {Deserialize(target, data)} :
          /\ pets' = [j \in DOMAIN pets \cup {i} |-> IF j = i THEN r.pet ELSE pets[j]]
          /\ codec' = [op |-> "deserialize", src |-> src, target |-> target,
                       data |-> data, exc |-> r.exc, key |-> r.key]
    /\ call' = ForgetCall(i)
    /\ UNCHANGED <<docs, query, hist, origin, clock>>

InitCodec ==
    /\ pets \in {[i \in {"a"} |-> r] : r \in Records}
    /\ call = [i \in Slots |-> NoCall]
    /\ docs = <<>>
    /\ query = NoQuery
    /\ hist = [i \in Slots |-> NoHist]
    /\ origin = <<>>
    /\ codec = NoCodec
    /\ clock = ImportClock

\* "a" serializes its instance; "b" deserializes into a new Pet() what "a"
\* serialized
NextCodec ==
    \/ SerializeCall("a")
    \/ codec.op = "serialize" /\ DeserializeCall("b", DefaultPet, codec.data, codec.src)

SpecCodec == InitCodec /\ [][NextCodec]_vars

\* a caller deserializes dictionaries from elsewhere, each into a new Pet()
NextDecode == \E data \in Documents : DeserializeCall("b", DefaultPet, data, <<>>)

SpecDecode == Init /\ [][NextDecode]_vars

\* --------------------------------------------------------------- remove_all
\* the call of remove_all in progress or last finished: where it is (the
\* listing by all(), then one delete after the other), the tries left of its
\* own decorator (outer) and of the decorator of the method it is in (tries),
\* the Pets of the listing still to delete; and as history the database when
\* the call began, the ids listed and the ids whose delete succeeded
NoRemoveAll ==
    [kind |-> "remove_all", st |-> "idle", outer |-> 0, tries |-> 0, todo |-> <<>>,
     exc |-> "none", calls |-> 0, docs0 |-> <<>>, listed |-> {}, deleted |-> {}]

\* the database after create has succeeded for each Pet of a sequence
RECURSIVE StoreOf(_)
StoreOf(ps) ==
    IF ps = <<>> THEN <<>>
    ELSE PostDocument(StoreOf(SubSeq(ps, 1, Len(ps) - 1)), Serialize(ps[Len(ps)])).docs

\* the databases remove_all is called on: up to MaxWrites \div 2 documents,
\* the first of them possibly deleted already
Stores ==
    LET made == {StoreOf(ps) : ps \in UNION {[1..n -> PetArgs] : n \in 0..(MaxWrites \div 2)}}
    IN made \cup {DeleteDocument(d, 1, 1).docs : d \in made \ {<<>>}}

InitRemoveAll ==
    /\ pets = <<>>
    /\ call = [i \in Slots |-> NoCall]
    /\ docs \in Stores
    /\ query = NoRemoveAll
    /\ hist = [i \in Slots |-> NoHist]
    /\ origin = <<>>
    /\ codec = NoCodec
    /\ clock = ImportClock

\* a caller calls Pet.remove_all()
RemoveAllCall ==
    /\ query.st \in {"idle", "done"}
    /\ query' = [NoRemoveAll EXCEPT !.st = "list", !.outer = RETRY_COUNT,
                                    !.tries = RETRY_COUNT, !.docs0 = docs]
    /\ UNCHANGED <<pets, call, docs, hist, origin, codec, clock>>

\* the state of the call after the method it was in raised exc through that
\* method's decorator: the decorator of remove_all either starts the body
\* again or lets the call end
RemoveAllRaise(q, exc) ==
    LET r == Retry("remove_all", q.outer, exc)
    IN IF r.over THEN [q EXCEPT !.st = "done", !.exc = exc, !.tries = 0, !.outer = 0]
       ELSE [q EXCEPT !.st = "list", !.outer = r.tries, !.tries = RETRY_COUNT,
                      !.todo = <<>>]

\* for document in cls.all(): one pass of the loop of all's decorator
RemoveAllList ==
    /\ query.st = "list"
    /\ \E fault \in {"none", "refused"} :
       \E o \in {All(docs, fault)} :
          LET q == [query EXCEPT !.calls = @ + 1]
              r == Retry("all", q.tries, o.exc)
          IN query' =
                IF o.exc = "ok"
                THEN IF o.ret = <<>>
                     THEN [q EXCEPT !.st = "done", !.exc = "ok", !.tries = 0, !.outer = 0]
                     ELSE [q EXCEPT !.st = "delete", !.tries = RETRY_COUNT, !.todo = o.ret,
                                    !.listed = {o.ret[k].id : k \in 1..Len(o.ret)}]
                ELSE IF ~r.over THEN [q EXCEPT !.tries = r.tries]
                ELSE RemoveAllRaise(q, o.exc)
    /\ UNCHANGED <<pets, call, docs, hist, origin, codec, clock>>

\* the loop goes on with the next Pet of the listing
RemainingSkipping(todo) == IF Len(todo) >= 2 THEN Tail(Tail(todo)) ELSE <<>>

Remaining(todo) == Tail(todo)

\* document.delete(): one pass of the loop of delete's decorator, for the
\* Pet the iteration is at
RemoveAllDelete ==
    /\ query.st = "delete"
    /\ \E fault \in Faults :
       \E o \in {Delete(Head(query.todo), docs, fault)} :
          LET q == [query EXCEPT !.calls = IF o.code # 0 THEN @ + 1 ELSE @]
              r == Retry("delete", q.tries, o.exc)
              rest == Remaining(q.todo)
          IN /\ fault = "lost" => o.docs # docs
             /\ fault = "refused" => o.code = UNAVAILABLE
             /\ docs' = o.docs
             /\ query' =
                   IF o.exc = "ok"
                   THEN LET q1 == [q EXCEPT !.deleted = @ \cup {Head(q.todo).id},
                                            !.todo = rest]
                        IN IF rest = <<>>
                           THEN [q1 EXCEPT !.st = "done", !.exc = "ok", !.tries = 0,
                                           !.outer = 0]
                           ELSE [q1 EXCEPT !.tries = RETRY_COUNT]
                   ELSE IF ~r.over THEN [q EXCEPT !.tries = r.tries]
                   ELSE RemoveAllRaise(q, o.exc)
    /\ UNCHANGED <<pets, call, hist, origin, codec, clock>>

NextRemoveAll ==
    \/ RemoveAllCall
    \/ RemoveAllList
    \/ RemoveAllDelete

SpecRemoveAll == InitRemoveAll /\ [][NextRemoveAll]_vars

\* ------------------------------------------------------------- the calendar
\* the day after d
NextDay(d) ==
    IF d.day < DaysIn(d.year, d.month) THEN [d EXCEPT !.day = @ + 1]
    ELSE IF d.month < 12 THEN [d EXCEPT !.month = @ + 1, !.day = 1]
    ELSE [year |-> d.year + 1, month |-> 1, day |-> 1]

RECURSIVE DayAfter(_, _)
DayAfter(d, n) == IF n = 0 THEN d ELSE NextDay(DayAfter(d, n - 1))

\* midnight passes while the process runs
Tick ==
    /\ clock.today # DayAfter(ImportDay, MaxDays)
    /\ clock' = [clock EXCEPT !.today = NextDay(@)]
    /\ UNCHANGED <<pets, call, docs, query, hist, origin, codec>>

\* pet = Pet(name, category): birthday is not given, so the parameter's
\* default applies, which Python evaluated when it executed the def
ConstructDefault(i) ==
    /\ \E n \in Names, c \in Categories :
          pets' = [j \in DOMAIN pets \cup {i} |->
                     IF j = i THEN NewPet(n, c, TRUE, UNKNOWN, ImportDay) ELSE pets[j]]
    /\ clock' = [clock EXCEPT !.built[i] = clock.today, !.defaulted[i] = TRUE]
    /\ UNCHANGED <<call, docs, query, hist, origin, codec>>

\* pet = Pet(...) with every argument given
ConstructGiven(i) ==
    /\ \E a \in PetArgs :
          pets' = [j \in DOMAIN pets \cup {i} |-> IF j = i THEN a ELSE pets[j]]
    /\ clock' = [clock EXCEPT !.built[i] = clock.today, !.defaulted[i] = FALSE]
    /\ UNCHANGED <<call, docs, query, hist, origin, codec>>

NextDays ==
    \/ Tick
    \/ \E i \in Slots : ConstructDefault(i)
    \/ \E i \in Slots : ConstructGiven(i)

SpecDays == Init /\ [][NextDays]_vars

\* ------------------------------------------------ a shared database listed
\* the contents of the documents in a database that other applications write
\* to: two written by serialize, one without category, one with a gender in
\* lower case, one with a day that is not in the calendar
ListedBodies ==
    LET good == Body(Serialize(Fido))
    IN {good, Body(Serialize(Nameless)),
        [k \in DOMAIN good \ {"category"} |-> good[k]],
        [good EXCEPT !["gender"] = JStr("male")],
        [good EXCEPT !["birthday"] =
            JStr(<<"2", "0", "2", "0", "-", "0", "2", "-", "3", "0">>)]}

InitListing ==
    /\ pets = <<>>
    /\ call = [i \in Slots |-> NoCall]
    /\ docs \in UNION {[1..n -> [rev : {1}, deleted : {FALSE}, body : ListedBodies]] :
                          n \in 0..MaxListed}
    /\ query = NoQuery
    /\ hist = [i \in Slots |-> NoHist]
    /\ origin = <<>>
    /\ codec = NoCodec
    /\ clock = ImportClock

NextListing ==
    \/ QCall("all", None, NoId)
    \/ QAttempt

SpecListing == InitListing /\ [][NextListing]_vars

\* ------------------------------------------- deserialize into a held instance
\* the dictionaries a caller deserializes into the instance it holds: what
\* serialize makes of a Pet with or without an id and a rev, and one that
\* lacks birthday
IdDocuments ==
    LET full == {Serialize([Nameless EXCEPT !.id = k, !.rev = r]) :
                    k \in {NoId, 2}, r \in {NoRev, 3}}
        whole == Serialize([Nameless EXCEPT !.id = 2, !.rev = 3])
    IN full \cup {[k \in DOMAIN whole \ {"birthday"} |-> whole[k]]}

\* a database with one document; the caller holds the Pet found for it, or a
\* new one
InitIdentity ==
    /\ pets \in {[i \in {"a"} |-> p] : p \in {Loaded(Fido), Fido}}
    /\ call = [i \in Slots |-> NoCall]
    /\ docs = PostDocument(<<>>, Serialize(Fido)).docs
    /\ query = NoQuery
    /\ hist = [i \in Slots |->
                 IF i = "a" /\ pets[i].id # NoId
                 THEN [persisted |-> TRUE, removed |-> FALSE, src |-> 1] ELSE NoHist]
    /\ origin = [d \in {1} |-> Fields(Fido)]
    /\ codec = NoCodec
    /\ clock = ImportClock

\* the caller calls create, update and delete on its instance and, once,
\* deserializes a dictionary into it
NextIdentity ==
    \/ \E m \in Methods : Call("a", m)
    \/ Attempt("a")
    \/ \E data \in IdDocuments :
          /\ Idle("a") /\ codec.op = "none"
          /\ DeserializeCall("a", pets["a"], data, <<>>)

SpecIdentity == InitIdentity /\ [][NextIdentity]_vars

\* ------------------------------------------------ create on an empty database
\* one caller holding a new instance; it calls create while the database is
\* empty, so every document there is was added by that call
InitCreate ==
    /\ pets \in {[i \in {"a"} |-> p] : p \in PetArgs \cup {Unnamed}}
    /\ call = [i \in Slots |-> NoCall]
    /\ docs = <<>>
    /\ query = NoQuery
    /\ hist = [i \in Slots |-> NoHist]
    /\ origin = <<>>
    /\ codec = NoCodec
    /\ clock = ImportClock

NextCreate ==
    \/ docs = <<>> /\ Call("a", "create")
    \/ Attempt("a")

SpecCreate == InitCreate /\ [][NextCreate]_vars

\* ===================================================================
\* Properties
\* ===================================================================
Finished(i) == call[i].st = "done"

\* C1: a create, update or delete whose requests failed only transiently sends
\* at most RETRY_COUNT requests; after k < RETRY_COUNT transient failures and a
\* success it has succeeded with k + 1 requests sent, and after RETRY_COUNT
\* transient failures it has failed with DatabaseConnectionError with exactly
\* RETRY_COUNT requests sent.
C1_RetryBound ==
    \A i \in Slots :
        LET c == call[i]
        IN /\ c.calls <= RETRY_COUNT
           /\ c.st = "run" => c.calls = c.transients + c.rejects
           /\ (Finished(i) /\ c.calls > 0 /\ c.rejects = 0) =>
                 /\ c.transients < RETRY_COUNT =>
                       c.exc = "ok" /\ c.calls = c.transients + 1
                 /\ c.transients >= RETRY_COUNT =>
                       /\ c.exc = "DatabaseConnectionError"
                       /\ c.calls = RETRY_COUNT
                       /\ c.transients = RETRY_COUNT

\* a call that succeeded at its third request, after two transient failures
C1_Witness ==
    \E i \in Slots :
        /\ Finished(i) /\ call[i].exc = "ok"
        /\ call[i].transients = 2 /\ call[i].rejects = 0 /\ call[i].calls = 3

\* a call that gave up after RETRY_COUNT transient failures
C1_Exhausted ==
    \E i \in Slots :
        /\ Finished(i) /\ call[i].exc = "DatabaseConnectionError"
        /\ call[i].transients = RETRY_COUNT /\ call[i].calls = RETRY_COUNT

\* C2: a request of create, update or delete that the database rejects
\* (conflict, not found) is not retried: the call is over after that one request
\* and its error is not the DatabaseConnectionError of exhausted retries.
C2_RejectionNotRetried ==
    \A i \in Slots :
        call[i].rejects > 0 =>
            /\ Finished(i)
            /\ call[i].calls = 1
            /\ call[i].exc # "DatabaseConnectionError"

\* C4: find returns None if and only if the database answered 404.
C4_AbsentIffNotFound ==
    (query.kind = "find" /\ query.st = "done") =>
        ((query.exc = "ok" /\ query.ret = <<>>) <=> query.code = NOT_FOUND)

\* C5: all, find_by and find_by_name retry transient failures: after
\* k < RETRY_COUNT transient failures and a success the query has returned its
\* result with k + 1 requests sent, and it fails only after RETRY_COUNT requests.
C5_QueriesRetried ==
    (query.kind \in {"all", "find_by", "find_by_name"} /\ query.st = "done") =>
        /\ query.transients < RETRY_COUNT =>
              query.exc = "ok" /\ query.calls = query.transients + 1
        /\ query.exc = "DatabaseConnectionError" => query.calls = RETRY_COUNT

\* C6: an instance's id is set if and only if the instance has been persisted
\* (written by a call that succeeded, or loaded from the database).
C6_IdIffPersisted ==
    \A i \in DOMAIN pets : (pets[i].id # NoId) <=> hist[i].persisted

\* C7: once delete has succeeded on an instance, the document stays deleted,
\* and every update or delete called on that instance afterwards fails with
\* every one of its requests refused by the database.
C7_RemovedStaysRemoved ==
    \A i \in DOMAIN pets :
        /\ hist[i].removed => pets[i].id # NoId /\ ~Live(docs, pets[i].id)
        /\ (Finished(i) /\ call[i].op = "delete" /\ call[i].exc = "ok") =>
              hist[i].removed
        /\ (Finished(i) /\ call[i].op = "update" /\ call[i].exc = "ok"
               /\ call[i].id0 # NoId) =>
              /\ pets[i].id = call[i].id0 /\ pets[i].rev # call[i].rev0
              /\ Live(docs, pets[i].id) /\ ~hist[i].removed
        /\ (Finished(i) /\ call[i].removed0 /\ call[i].op \in {"update", "delete"}) =>
              /\ call[i].exc = "DatabaseConnectionError"
              /\ call[i].calls = call[i].transients + call[i].rejects

\* an update called on an instance after its delete succeeded has failed
C7_Witness ==
    \E i \in DOMAIN pets :
        /\ Finished(i) /\ call[i].removed0 /\ call[i].op = "update"
        /\ call[i].exc = "DatabaseConnectionError" /\ call[i].rejects > 0
        /\ hist[i].removed /\ ~Live(docs, pets[i].id)

\* C8: after a successful create or update the instance's revision is the
\* one the database gave the written document, and an update or delete called
\* on an instance whose revision is still current, meeting no transient
\* failure, succeeds.
C8_FreshRevisionAccepted ==
    \A i \in DOMAIN pets :
        /\ (Finished(i) /\ call[i].op \in {"create", "update"} /\ call[i].exc = "ok") =>
              Fresh(i)
        /\ (Finished(i) /\ call[i].op \in {"update", "delete"}
               /\ call[i].fresh0 /\ call[i].transients = 0) =>
              call[i].exc = "ok"

\* C9: a create on an instance without id that succeeds has set id and rev and
\* returned the id of a live document; a find the database answers with a
\* document returns a Pet with the five attributes of the instance the document
\* was written from; a delete on an instance with id and current revision,
\* meeting no transient failure, succeeds and leaves no live document; a find of
\* a deleted document returns None.
C9_Scenario ==
    /\ \A i \in DOMAIN pets :
          /\ (Finished(i) /\ call[i].op = "create" /\ call[i].exc = "ok"
                 /\ call[i].id0 = NoId) =>
                /\ pets[i].id # NoId /\ pets[i].rev # NoRev
                /\ call[i].ret = pets[i].id
                /\ Live(docs, pets[i].id)
          /\ (Finished(i) /\ call[i].op = "delete" /\ call[i].fresh0
                 /\ call[i].id0 # NoId /\ call[i].transients = 0) =>
                call[i].exc = "ok" /\ ~Live(docs, pets[i].id)
    /\ (query.kind = "find" /\ query.st = "done" /\ query.code = OK) =>
          /\ query.exc = "ok" /\ Len(query.ret) = 1 /\ Len(query.orig0) = 1
          /\ Fields(query.ret[1]) = query.orig0[1]
          /\ query.ret[1].id = query.id /\ query.ret[1].rev # NoRev
    /\ (query.kind = "find" /\ query.st = "done" /\ query.gone0) =>
          query.exc = "ok" /\ query.ret = <<>>

\* the end of the scenario: the instance was created or found, its delete
\* succeeded, and the find of its id that followed returned None
C9_Witness ==
    /\ "a" \in DOMAIN pets /\ hist["a"].removed /\ pets["a"].name = "Fido"
    /\ query.kind = "find" /\ query.st = "done" /\ query.id = pets["a"].id
    /\ query.gone0 /\ query.ret = <<>>

\* a find that returned the Pet of a document written from an instance that is
\* not available
C9_Found ==
    /\ query.kind = "find" /\ query.st = "done" /\ Len(query.ret) = 1
    /\ ~query.ret[1].available

\* C10: a create on an instance whose name is None runs the body once, sends
\* nothing to the database, fails with DataValidationError and leaves id and rev
\* as they were.
C10_NamelessCreate ==
    \A i \in DOMAIN pets :
        (call[i].op = "create" /\ pets[i].name = None) =>
            /\ call[i].calls = 0
            /\ call[i].st = "run" => call[i].runs = 0
            /\ Finished(i) =>
                  /\ call[i].exc = "DataValidationError"
                  /\ call[i].runs = 1
                  /\ pets[i].id = call[i].id0 /\ pets[i].rev = call[i].rev0

\* a create on a new instance without name has failed
C10_Witness ==
    \E i \in DOMAIN pets :
        /\ Finished(i) /\ call[i].op = "create" /\ pets[i].name = None
        /\ call[i].exc = "DataValidationError"
        /\ pets[i].id = NoId /\ pets[i].rev = NoRev

\* C3: when two instances loaded from the same document at the same revision
\* are both updated while the document is at that revision and no request
\* meets a transient failure, one update
\* succeeds and the other fails at its single request, which the database
\* rejected, and the document is the one the successful update wrote.
C3_OneWinsOtherRejected ==
    LET a == call["a"]
        b == call["b"]
        Won(w, l) ==
            /\ call[w].exc = "ok"
            /\ call[l].exc # "ok" /\ call[l].rejects = 1 /\ call[l].calls = 1
            /\ docs[pets[w].id].rev = pets[w].rev
            /\ docs[pets[w].id].body = Body(Serialize(pets[w]))
    IN (/\ a.st = "done" /\ b.st = "done"
        /\ a.op = "update" /\ b.op = "update"
        /\ a.id0 = b.id0 /\ a.rev0 = b.rev0
        /\ (a.fresh0 \/ b.fresh0)
        /\ a.transients = 0 /\ b.transients = 0) =>
           Won("a", "b") \/ Won("b", "a")

\* the same without the demand that the loser's update ends at its first
\* rejected request: the loser has failed, with every request rejected
C3_OneWins ==
    LET a == call["a"]
        b == call["b"]
        Won(w, l) ==
            /\ call[w].exc = "ok"
            /\ call[l].exc = "DatabaseConnectionError"
            /\ call[l].rejects = call[l].calls
            /\ docs[pets[w].id].rev = pets[w].rev
            /\ docs[pets[w].id].body = Body(Serialize(pets[w]))
    IN (/\ a.st = "done" /\ b.st = "done"
        /\ a.op = "update" /\ b.op = "update"
        /\ a.id0 = b.id0 /\ a.rev0 = b.rev0
        /\ (a.fresh0 \/ b.fresh0)
        /\ a.transients = 0 /\ b.transients = 0) =>
           Won("a", "b") \/ Won("b", "a")

\* C11: create and update called on an instance whose name is None or the empty
\* string send nothing to the database and fail with DataValidationError, and
\* no live document has a name that is null or empty.
C11_NameRequired ==
    /\ \A d \in DOMAIN docs :
          Live(docs, d) =>
             /\ docs[d].body["name"].t = "str"
             /\ docs[d].body["name"].v # ""
    /\ \A i \in DOMAIN pets :
          (call[i].op \in {"create", "update"} /\ pets[i].name \in {None, ""}) =>
             /\ call[i].calls = 0
             /\ Finished(i) => call[i].exc = "DataValidationError"

\* C12: deserializing into a new Pet what serialize made of an instance with
\* every attribute set succeeds and yields the instance's name, category,
\* available, gender and birthday.
C12_RoundTrip ==
    (codec.op = "deserialize" /\ codec.src # <<>>) =>
        /\ codec.exc = "ok"
        /\ Fields(pets["b"]) = Fields(codec.src)

\* a round trip of an unavailable female Pet without category, born on a
\* leap day
C12_Witness ==
    /\ codec.op = "deserialize" /\ codec.src # <<>> /\ codec.exc = "ok"
    /\ "b" \in DOMAIN pets
    /\ pets["b"].gender = FEMALE /\ ~pets["b"].available
    /\ pets["b"].category = None
    /\ pets["b"].birthday = [year |-> 2020, month |-> 2, day |-> 29]
    /\ Fields(pets["b"]) = Fields(codec.src)

\* C13: deserialize of a dictionary that lacks one of the five keys fails with
\* DataValidationError naming the first key it lacks, whatever the values of
\* the other keys; deserialize of a dictionary whose available is no boolean
\* fails with DataValidationError.
C13_DecodeValidation ==
    LET d == codec.data
        order == <<"name", "category", "available", "gender", "birthday">>
        lacks == {k \in 1..5 : order[k] \notin DOMAIN d}
        first == CHOOSE k \in lacks : \A j \in lacks : k <= j
    IN codec.op = "deserialize" =>
          /\ lacks # {} =>
                codec.exc = "DataValidationError" /\ codec.key = order[first]
          /\ ("available" \in DOMAIN d /\ d["available"].t # "bool") =>
                codec.exc = "DataValidationError"

\* C14: deserialize of a dictionary with the five keys, a boolean available and
\* a gender string that is none of MALE, FEMALE, UNKNOWN fails with
\* DataValidationError.
C14_UnknownGender ==
    LET d == codec.data
    IN (/\ codec.op = "deserialize"
        /\ DataKeys \subseteq DOMAIN d
        /\ d["available"].t = "bool"
        /\ d["gender"].t = "str"
        /\ d["gender"].v \notin {"MALE", "FEMALE", "UNKNOWN"}) =>
           codec.exc = "DataValidationError"

\* C15: remove_all creates no document and changes a document only by
\* deleting it; the documents whose delete succeeded stay deleted; when the
\* call has ended without error every listed Pet was deleted and no document
\* is live; when it has ended with an error the error is that of the method
\* that failed and the Pets after the one the iteration stopped at are as they
\* were.
C15_RemoveAll ==
    LET q == query
    IN q.st # "idle" =>
          /\ DOMAIN docs = DOMAIN q.docs0
          /\ \A d \in DOMAIN docs : docs[d] = q.docs0[d] \/ docs[d].deleted
          /\ \A d \in q.deleted : ~Live(docs, d)
          /\ q.deleted \subseteq q.listed
          /\ (q.st = "done" /\ q.exc = "ok") =>
                /\ q.deleted = q.listed
                /\ q.listed = {d \in DOMAIN q.docs0 : Live(q.docs0, d)}
                /\ \A d \in DOMAIN docs : ~Live(docs, d)
          /\ (q.st = "done" /\ q.exc # "ok") =>
                /\ q.exc = "DatabaseConnectionError"
                /\ \A k \in 2..Len(q.todo) :
                      docs[q.todo[k].id] = q.docs0[q.todo[k].id]

\* a remove_all that failed at its second delete: the first document is
\* deleted, the second is live
C15_Witness ==
    /\ query.st = "done" /\ query.exc = "DatabaseConnectionError"
    /\ query.deleted # {} /\ Len(query.todo) = 1
    /\ Live(docs, query.todo[1].id)

\* a remove_all that deleted two documents, one of them at a retry
C15_Emptied ==
    /\ query.st = "done" /\ query.exc = "ok"
    /\ Cardinality(query.deleted) = 2 /\ query.calls > 3
    /\ \A d \in DOMAIN docs : ~Live(docs, d)

\* C16: an instance constructed without a birthday has the day of its
\* construction as birthday, so two such instances constructed on different
\* days have different birthdays.
C16_BirthdayIsConstructionDay ==
    /\ \A i \in DOMAIN pets :
          clock.defaulted[i] => pets[i].birthday = clock.built[i]
    /\ \A i, j \in DOMAIN pets :
          (clock.defaulted[i] /\ clock.defaulted[j] /\ clock.built[i] # clock.built[j]) =>
             pets[i].birthday # pets[j].birthday

\* C17: when the database has answered all() with its listing, either the call
\* returns one Pet per listed document, in the listing's order, each with the
\* id and rev of its document, or it fails with DataValidationError and
\* returns nothing.
C17_AllOrNothing ==
    LET rows == PostAllDocs(docs)
    IN (query.kind = "all" /\ query.st = "done" /\ query.code = OK) =>
          \/ /\ query.exc = "ok"
             /\ Len(query.ret) = Len(rows)
             /\ \A k \in 1..Len(rows) :
                   /\ query.ret[k].id = rows[k]["_id"].v
                   /\ query.ret[k].rev = rows[k]["_rev"].v
          \/ /\ query.exc = "DataValidationError"
             /\ query.ret = <<>>

\* C18: no step changes an id that is set: create, update and delete keep it,
\* and so does deserialize, whatever _id the dictionary has; a deserialize
\* that succeeds sets rev to the dictionary's _rev when it has one, and sets
\* the id of an instance without id to the dictionary's _id when it has one.
C18_IdImmutable ==
    [][/\ \A i \in DOMAIN pets :
             pets[i].id # NoId => (i \in DOMAIN pets' /\ pets'[i].id = pets[i].id)
       /\ (codec' # codec /\ codec'.op = "deserialize" /\ codec'.exc = "ok") =>
             /\ "_rev" \in DOMAIN codec'.data =>
                   pets'["a"].rev = codec'.data["_rev"].v
             /\ "_rev" \notin DOMAIN codec'.data => pets'["a"].rev = codec'.target.rev
             /\ (codec'.target.id = NoId /\ "_id" \in DOMAIN codec'.data) =>
                   pets'["a"].id = codec'.data["_id"].v]_vars

\* a dictionary with another _id and another _rev was deserialized into an
\* instance with id: the id is the instance's, the rev the dictionary's
C18_Witness ==
    /\ codec.op = "deserialize" /\ codec.exc = "ok"
    /\ codec.target.id = 1 /\ codec.target.rev = 1
    /\ "_id" \in DOMAIN codec.data /\ codec.data["_id"].v = 2
    /\ "_rev" \in DOMAIN codec.data /\ codec.data["_rev"].v = 3
    /\ pets["a"].id = 1 /\ pets["a"].rev = 3

\* C19: while every attempt of a create, update or delete has failed, and
\* after the call has ended in failure, the instance's id and rev are what
\* they were when the call began.
C19_FailureKeepsIds ==
    \A i \in DOMAIN pets :
        (call[i].st = "run" \/ (Finished(i) /\ call[i].exc # "ok")) =>
            /\ pets[i].id = call[i].id0
            /\ pets[i].rev = call[i].rev0

\* an update on a persisted instance that failed after RETRY_COUNT requests,
\* some failing transiently and some rejected
C19_Witness ==
    \E i \in DOMAIN pets :
        /\ Finished(i) /\ call[i].op = "update"
        /\ call[i].exc = "DatabaseConnectionError"
        /\ call[i].calls = RETRY_COUNT /\ call[i].transients > 0 /\ call[i].rejects > 0
        /\ call[i].id0 # NoId
        /\ pets[i].id = call[i].id0 /\ pets[i].rev = call[i].rev0

\* C20: a create called on an instance without id while the database is empty
\* leaves at most one document there, whatever the number of its attempts,
\* and when it has succeeded that document is the one the instance's id names.
C20_CreateAddsOne ==
    (call["a"].op = "create" /\ call["a"].id0 = NoId) =>
        /\ Cardinality(DOMAIN docs) <= 1
        /\ (Finished("a") /\ call["a"].exc = "ok") => DOMAIN docs = {pets["a"].id}

====
